---- MODULE Spec2Model ----
(***************************************************************************)
(* Blood_Connect: the client-side notification service (a singleton that   *)
(* wraps one socket, keeps the notification list and the subscriber list)  *)
(* and the two views that use it or that save a profile.                   *)
(*                                                                         *)
(* The service runs on one event loop.  A public method runs to completion *)
(* except where it calls subscriber callbacks: notifyListeners is modelled *)
(* one callback at a time, and while a callback runs it may itself call    *)
(* subscribe or an unsubscribe closure.  The callbacks of this repository  *)
(* only store the snapshot they are given; the model does not let a        *)
(* callback call markAsRead or the channel methods.                        *)
(*                                                                         *)
(* Inbound payloads are taken to be well formed (urgency, donor present):  *)
(* the title and message strings built from them are not modelled.         *)
(***************************************************************************)
EXTENDS Integers, Sequences, FiniteSets, TLC

\* Bound: notifications + listeners + emitted events held at any time.
MaxSize == 3

\* Bound: saves started in the profile view.
MaxSaves == 2

\* Request identifiers carried by inbound payloads (data.id / data.requestId).
Sources == {"r1"}

\* Values Date.now() can return; successive reads never decrease.
Times == {1, 2}

\* Subscriber callbacks (function identities).
Callbacks == {"cb1", "cb2"}

\* The userProfile objects handed to the views.
DonorProfile ==
    [id |-> "u1", role |-> "donor", fullName |-> "Jane", phoneNumber |-> "555",
     bloodType |-> "O-", location |-> "Pune"]

ClinicProfile ==
    [id |-> "u2", role |-> "clinic", fullName |-> "City", phoneNumber |-> "777",
     bloodType |-> "", location |-> "Goa"]

Profiles == {DonorProfile, ClinicProfile}

VARIABLES
    socket,         \* this.socket: 0 for null, else an index into channels
    channels,       \* the sockets that are open (created and not disconnected)
    notifications,  \* this.notifications, head first
    listeners,      \* this.listeners
    round,          \* the notifyListeners call in progress: <<>> or one frame
    emitted,        \* outbound events handed to the channel, oldest first
    received,       \* inbound events handled so far
    now,            \* the last value read from Date.now()
    permission,     \* Notification.permission
    alerts,         \* platform notifications created
    toasts          \* toasts shown

svcVars == <<socket, channels, notifications, listeners, round, emitted,
             received, now, permission, alerts, toasts>>

VARIABLES
    userProfile,    \* the userProfile prop of ProfileSettings
    isEditing,      \* useState(false)
    isLoading,      \* useState(false)
    formData,       \* the draft
    pending,        \* the profile.update call awaited: <<>> or <<updateData>>
    outcome,        \* how the last awaited call ended ("none" before any)
    saves,          \* handleSave calls so far
    updateCalls,    \* profile.update calls so far
    refreshCalls,   \* onProfileUpdate calls so far
    shown           \* toasts of the latest save, oldest first

viewVars == <<userProfile, isEditing, isLoading, formData, pending, outcome,
              saves, updateCalls, refreshCalls, shown>>

VARIABLE
    views           \* the NotificationCenter instances, by name

vars == <<svcVars, viewVars, views>>

Range(s) == {s[i] : i \in DOMAIN s}

Size == Len(notifications) + Len(listeners) + Len(emitted)

\* A public method can be called from the event loop or from a running callback.
Idle == round = <<>>

\* NotificationCenter instances that can be on screen.
Views == {"v1", "v2"}

\* An instance that is not mounted.  cb is the closure its effect subscribed,
\* same whether its notifications state is the very array the service holds
\* now, seen the contents of that state when it was set.
Unmounted ==
    [mounted |-> FALSE, cb |-> "", profile |-> DonorProfile, same |-> FALSE,
     seen |-> <<>>]

\* setNotifications(a) where a is the service's array: React keeps the state
\* it has when Object.is(state, a).
setNotifications(w) ==
    IF w.same THEN w ELSE [w EXCEPT !.same = TRUE, !.seen = notifications']

\* The closure (newNotifications) => setNotifications(newNotifications) of
\* the view that subscribed callback.
Called(callback, base) ==
    [v \in Views |->
        IF base[v].mounted /\ base[v].cb = callback
        THEN setNotifications(base[v]) ELSE base[v]]

\* listener(this.notifications) for the callback forEach has just reached.
Deliver(base) ==
    views' = IF round' = <<>> THEN base
             ELSE Called(round'[1].arr[round'[1].idx], base)

\* this.notifications = this.notifications.map(...): no view holds the new
\* array yet.
Replaced == [v \in Views |-> [views[v] EXCEPT !.same = FALSE]]

----------------------------------------------------------------------------
\* notifyListeners: forEach walks the array that this.listeners was when the
\* call began; idx is the callback now running, live whether that callback was
\* still registered when it was called, arg the list it was called with.
Frame(kind) ==
    [arr |-> listeners, idx |-> 1, live |-> TRUE, kind |-> kind,
     arg |-> notifications']

\* Mutant: the platform alert is raised without looking at the permission.
AfterNotifyUnchecked(kind) ==
    IF kind = "event"
    THEN alerts' = alerts + 1 /\ toasts' = toasts + 1
    ELSE UNCHANGED <<alerts, toasts>>

\* What the handler does after addNotification returns.
AfterNotify(kind) ==
    IF kind = "event"
    THEN /\ alerts' = IF permission = "granted" THEN alerts + 1 ELSE alerts
         /\ toasts' = toasts + 1
    ELSE UNCHANGED <<alerts, toasts>>

notifyListeners(kind) ==
    IF listeners = <<>>
    THEN round' = <<>> /\ AfterNotify(kind)
    ELSE round' = <<Frame(kind)>> /\ UNCHANGED <<alerts, toasts>>

\* The running callback returns: forEach calls the next one or ends.
ListenerReturn ==
    /\ round # <<>>
    /\ LET f == round[1] IN
         IF f.idx < Len(f.arr)
         THEN /\ round' = <<[f EXCEPT !.idx = f.idx + 1,
                                      !.live = f.arr[f.idx + 1] \in Range(listeners),
                                      !.arg = notifications]>>
              /\ UNCHANGED <<alerts, toasts>>
         ELSE /\ round' = <<>>
              /\ AfterNotify(f.kind)
    /\ UNCHANGED <<socket, channels, notifications, listeners, emitted,
                   received, now, permission, viewVars>>
    /\ Deliver(views)

----------------------------------------------------------------------------
AuthOf(userId, userRole, profile) ==
    [userId |-> userId, userRole |-> userRole,
     bloodType |-> profile.bloodType, location |-> profile.location]

\* io(url, {auth}) and the three socket.on registrations.
OpenChannel(auth) ==
    [auth |-> auth, handlers |-> [k \in {"blood_request_match", "donation_accepted",
                                         "request_fulfilled"} |-> 1]]

\* Mutant: the early return of connect is missing.
connectGuardOff == FALSE

connectGuard == socket # 0

connect(userId, userRole, profile) ==
    /\ Idle
    /\ IF connectGuard
       THEN UNCHANGED <<socket, channels>>
       ELSE /\ channels' = Append(channels, OpenChannel(AuthOf(userId, userRole, profile)))
            /\ socket' = Len(channels) + 1
    /\ UNCHANGED <<notifications, listeners, round, emitted, received, now,
                   permission, alerts, toasts, viewVars, views>>

RemoveAt(s, i) == [j \in 1..(Len(s) - 1) |-> IF j < i THEN s[j] ELSE s[j + 1]]

\* Mutant: the channel is closed but the handle is not cleared.
disconnectKeepsHandle ==
    /\ Idle
    /\ socket # 0
    /\ channels' = RemoveAt(channels, socket)
    /\ UNCHANGED <<socket, notifications, listeners, round, emitted, received, now,
                   permission, alerts, toasts, viewVars, views>>

disconnect ==
    /\ Idle
    /\ IF socket # 0
       THEN /\ channels' = RemoveAt(channels, socket)
            /\ socket' = 0
       ELSE UNCHANGED <<socket, channels>>
    /\ UNCHANGED <<notifications, listeners, round, emitted, received, now,
                   permission, alerts, toasts, viewVars, views>>

----------------------------------------------------------------------------
Prefix(event) ==
    CASE event = "blood_request_match" -> "req"
      [] event = "donation_accepted"   -> "acc"
      [] event = "request_fulfilled"   -> "ful"

TypeOf(event) ==
    CASE event = "blood_request_match" -> "blood_request"
      [] event = "donation_accepted"   -> "donation_accepted"
      [] event = "request_fulfilled"   -> "request_fulfilled"

\* `req_${data.id}_${Date.now()}`
MakeId(event, src, t) == Prefix(event) \o "_" \o src \o "_" \o ToString(t)

\* The record a handler builds; seq is the arrival number of its event
\* (not a field of the code's record: it names the event that created it).
NewNotification(event, src, t) ==
    [id |-> MakeId(event, src, t), type |-> TypeOf(event), data |-> src,
     timestamp |-> t, read |-> FALSE, seq |-> received + 1]

\* Mutant: push in place of unshift.
UnshiftAtEnd(list, n) == Append(list, n)

Unshift(list, n) == <<n>> \o list

\* A handler registered on an open channel runs for one inbound event.
Inbound(event, src, t) ==
    /\ Idle
    /\ channels # <<>>
    /\ \E c \in DOMAIN channels : channels[c].handlers[event] >= 1
    /\ Size < MaxSize
    /\ t >= now
    /\ now' = t
    /\ notifications' = Unshift(notifications, NewNotification(event, src, t))
    /\ received' = received + 1
    /\ notifyListeners("event")
    /\ Deliver(views)
    /\ UNCHANGED <<socket, channels, listeners, emitted, permission, viewVars>>

OnBloodRequestMatch == \E src \in Sources, t \in Times : Inbound("blood_request_match", src, t)

OnDonationAccepted == \E src \in Sources, t \in Times : Inbound("donation_accepted", src, t)

OnRequestFulfilled == \E src \in Sources, t \in Times : Inbound("request_fulfilled", src, t)

----------------------------------------------------------------------------
\* Mutant: the flag is flipped instead of set.
MarkListToggle(list, notificationId) ==
    [i \in DOMAIN list |->
        IF list[i].id = notificationId
        THEN [list[i] EXCEPT !.read = ~list[i].read] ELSE list[i]]

\* Mutant: read is set to the comparison, so every other record is unread.
MarkListOnly(list, notificationId) ==
    [i \in DOMAIN list |-> [list[i] EXCEPT !.read = (list[i].id = notificationId)]]

\* Mutant: the comparison is missing, so every record is marked.
MarkListAll(list, notificationId) ==
    [i \in DOMAIN list |-> [list[i] EXCEPT !.read = TRUE]]

MarkList(list, notificationId) ==
    [i \in DOMAIN list |->
        IF list[i].id = notificationId THEN [list[i] EXCEPT !.read = TRUE] ELSE list[i]]

markAsRead(notificationId) ==
    /\ Idle
    /\ notifications' = MarkList(notifications, notificationId)
    /\ notifyListeners("mark")
    /\ Deliver(Replaced)
    /\ UNCHANGED <<socket, channels, listeners, emitted, received, now, permission, viewVars>>

getNotifications == notifications

\* Mutant: the filter keeps the read records.
getReadCount == Len(SelectSeq(notifications, LAMBDA n : n.read))

getUnreadCount == Len(SelectSeq(notifications, LAMBDA n : ~n.read))

\* Identifiers a caller can pass: those on screen and one that matches nothing.
KnownIds == {notifications[i].id : i \in DOMAIN notifications} \cup {"none"}

----------------------------------------------------------------------------
subscribe(callback) ==
    /\ Size < MaxSize
    /\ listeners' = Append(listeners, callback)
    /\ UNCHANGED <<socket, channels, notifications, round, emitted, received,
                   now, permission, alerts, toasts, viewVars, views>>

\* Mutant: the filter test is inverted.
WithoutInverted(ls, callback) == SelectSeq(ls, LAMBDA l : l = callback)

\* Mutant: nothing is removed.
WithoutNothing(ls, callback) == ls

Without(ls, callback) == SelectSeq(ls, LAMBDA l : l # callback)

\* The closure subscribe(callback) returned.
unsubscribe(callback) ==
    /\ listeners' = Without(listeners, callback)
    /\ UNCHANGED <<socket, channels, notifications, round, emitted, received,
                   now, permission, alerts, toasts, viewVars, views>>

----------------------------------------------------------------------------
DonorResponse(requestId, response, userInfo) ==
    [event |-> "donor_response",
     payload |-> [requestId |-> requestId, response |-> response, donorInfo |-> userInfo]]

\* Mutant: the event is emitted whether or not a handle is held.
EmitUnguarded(requestId, response, userInfo) ==
    Append(emitted, DonorResponse(requestId, response, userInfo))

Emit(requestId, response, userInfo) ==
    IF socket # 0
    THEN Append(emitted, DonorResponse(requestId, response, userInfo))
    ELSE emitted

respondToBloodRequest(requestId, response, userInfo) ==
    /\ Idle
    /\ socket # 0 => Size < MaxSize
    /\ emitted' = Emit(requestId, response, userInfo)
    /\ UNCHANGED <<socket, channels, notifications, listeners, round, received,
                   now, permission, alerts, toasts, viewVars, views>>

AcceptInfo(profile) ==
    [id |-> profile.id, name |-> profile.fullName,
     phone |-> profile.phoneNumber, bloodType |-> profile.bloodType]

DeclineInfo(profile) ==
    [id |-> profile.id, name |-> profile.fullName]

\* The request cards a donor sees: blood_request records of the list.
RequestCards == {notifications[i].data : i \in {j \in DOMAIN notifications :
                                                  notifications[j].type = "blood_request"}}

handleAcceptBloodRequest(profile, requestData) ==
    respondToBloodRequest(requestData, "accept", AcceptInfo(profile))

handleDeclineBloodRequest(profile, requestData) ==
    respondToBloodRequest(requestData, "decline", DeclineInfo(profile))

----------------------------------------------------------------------------
\* ProfileSettings.  Text is a sequence of characters so that trim() is
\* computed; an optional field is <<>> when absent and <<v>> when present.
Text(opt) == IF opt = <<>> THEN <<>> ELSE opt[1]

Flag(opt) == IF opt = <<>> THEN FALSE ELSE opt[1]

Word(opt) == IF opt = <<>> THEN "" ELSE opt[1]

DonorSettings ==
    [id |-> "u1", email |-> "j@x", role |-> "donor", fullName |-> <<"J">>,
     phoneNumber |-> <<"5">>, location |-> <<"P">>, bloodType |-> <<"O-">>,
     isAvailable |-> <<TRUE>>, organizationName |-> <<>>, organizationType |-> <<>>]

ClinicSettings ==
    [id |-> "u2", email |-> "c@x", role |-> "clinic", fullName |-> <<"C">>,
     phoneNumber |-> <<"7">>, location |-> <<"G">>, bloodType |-> <<>>,
     isAvailable |-> <<>>, organizationName |-> <<<<"H">>>>, organizationType |-> <<"Hospital">>]

PatientSettings ==
    [id |-> "u3", email |-> "p@x", role |-> "patient", fullName |-> <<"P">>,
     phoneNumber |-> <<"9">>, location |-> <<"D">>, bloodType |-> <<>>,
     isAvailable |-> <<>>, organizationName |-> <<>>, organizationType |-> <<>>]

SettingsProfiles == {DonorSettings, ClinicSettings, PatientSettings}

\* useState initial value and handleCancel's reset.
DraftOf(p) ==
    [fullName |-> p.fullName, phoneNumber |-> p.phoneNumber, location |-> p.location,
     bloodType |-> Word(p.bloodType), isAvailable |-> Flag(p.isAvailable),
     organizationName |-> Text(p.organizationName),
     organizationType |-> Word(p.organizationType)]

IsSpace(c) == c \in {" ", "\t"}

RECURSIVE TrimStart(_)
TrimStart(s) ==
    IF s = <<>> THEN <<>>
    ELSE IF IsSpace(Head(s)) THEN TrimStart(Tail(s)) ELSE s

RECURSIVE TrimEnd(_)
TrimEnd(s) ==
    IF s = <<>> THEN <<>>
    ELSE IF IsSpace(s[Len(s)]) THEN TrimEnd(SubSeq(s, 1, Len(s) - 1)) ELSE s

\* Mutant: trimStart in place of trim.
trimStartOnly(s) == TrimStart(s)

trim(s) == TrimEnd(TrimStart(s))

Common(fd) ==
    [fullName |-> trim(fd.fullName), phoneNumber |-> trim(fd.phoneNumber),
     location |-> trim(fd.location)]

DonorPart(fd) == [bloodType |-> fd.bloodType, isAvailable |-> fd.isAvailable]

ClinicPart(fd) ==
    [organizationName |-> trim(fd.organizationName),
     organizationType |-> fd.organizationType]

\* Record union, as object spread builds it.
Spread(a, b) ==
    [k \in DOMAIN a \cup DOMAIN b |-> IF k \in DOMAIN b THEN b[k] ELSE a[k]]

UpdateData(fd, role) ==
    CASE role = "donor"  -> Spread(Common(fd), DonorPart(fd))
      [] role = "clinic" -> Spread(Common(fd), ClinicPart(fd))
      [] OTHER           -> Common(fd)

\* What the awaited profile.update can do: resolve with a result whose error
\* is empty or a message, or throw an Error.
Outcomes ==
    {[kind |-> "result", error |-> ""], [kind |-> "result", error |-> "denied"],
     [kind |-> "throw", error |-> "offline"], [kind |-> "throw", error |-> ""]}

\* Mutant: result.error is not looked at.
SucceededAnyResult(o) == o.kind = "result"

\* if (result.error) throw new Error(result.error) was not taken.
Succeeded(o) == o.kind = "result" /\ o.error = ""

\* error.message || 'Failed to update profile'
FailureText(o) == IF o.error = "" THEN "Failed to update profile" ELSE o.error

CallUpdate(n) == n + 1

\* The values a user can type or pick, per field.
Choices(field) ==
    CASE field = "fullName"         -> {<<"J">>, <<" ", "J", " ", "D", " ">>, <<" ">>}
      [] field = "phoneNumber"      -> {<<"5">>, <<"5", " ">>}
      [] field = "location"         -> {<<"P">>, <<"\t", "P">>}
      [] field = "bloodType"        -> {"O-", "A+"}
      [] field = "isAvailable"      -> BOOLEAN
      [] field = "organizationName" -> {<<"H">>, <<" ", "H">>}
      [] field = "organizationType" -> {"Hospital", "Clinic"}

\* The inputs rendered for a role.
Fields(role) ==
    {"fullName", "phoneNumber", "location"}
    \cup (IF role = "donor" THEN {"bloodType", "isAvailable"} ELSE {})
    \cup (IF role = "clinic" THEN {"organizationName", "organizationType"} ELSE {})

StartEdit ==
    /\ ~isEditing
    /\ isEditing' = TRUE
    /\ UNCHANGED <<userProfile, isLoading, formData, pending, outcome, saves,
                   updateCalls, refreshCalls, shown, svcVars, views>>

SetField ==
    /\ isEditing
    /\ \E f \in Fields(userProfile.role) : \E v \in Choices(f) :
          formData' = [formData EXCEPT ![f] = v]
    /\ UNCHANGED <<userProfile, isEditing, isLoading, pending, outcome, saves,
                   updateCalls, refreshCalls, shown, svcVars, views>>

\* handleSave up to the await.
handleSave ==
    /\ isEditing /\ ~isLoading
    /\ saves < MaxSaves
    /\ saves' = saves + 1
    /\ isLoading' = TRUE
    /\ pending' = <<UpdateData(formData, userProfile.role)>>
    /\ updateCalls' = CallUpdate(updateCalls)
    /\ shown' = <<>>
    /\ UNCHANGED <<userProfile, isEditing, formData, outcome, refreshCalls, svcVars, views>>

\* handleSave from the await on; refreshThrows: onProfileUpdate throws.
SaveSettles(o, refreshThrows) ==
    /\ pending # <<>>
    /\ pending' = <<>>
    /\ outcome' = o.kind \o (IF o.error = "" THEN "" ELSE ":" \o o.error)
    /\ IF Succeeded(o)
       THEN /\ isEditing' = FALSE
            /\ refreshCalls' = refreshCalls + 1
            /\ shown' = IF refreshThrows
                        THEN <<[kind |-> "success", text |-> "Profile updated successfully!"],
                               [kind |-> "error", text |-> "Failed to update profile"]>>
                        ELSE <<[kind |-> "success", text |-> "Profile updated successfully!"]>>
       ELSE /\ shown' = <<[kind |-> "error", text |-> FailureText(o)]>>
            /\ UNCHANGED <<isEditing, refreshCalls>>
    /\ isLoading' = FALSE
    /\ UNCHANGED <<userProfile, formData, saves, updateCalls, svcVars, views>>

SaveSettle == \E o \in Outcomes, refreshThrows \in BOOLEAN : SaveSettles(o, refreshThrows)

\* Mutant: edit mode is left but the draft is not reset.
handleCancelKeepsDraft ==
    /\ isEditing /\ ~isLoading
    /\ isEditing' = FALSE
    /\ UNCHANGED <<userProfile, formData, isLoading, pending, outcome, saves,
                   updateCalls, refreshCalls, shown, svcVars, views>>

handleCancel ==
    /\ isEditing /\ ~isLoading
    /\ formData' = DraftOf(userProfile)
    /\ isEditing' = FALSE
    /\ UNCHANGED <<userProfile, isLoading, pending, outcome, saves, updateCalls,
                   refreshCalls, shown, svcVars, views>>

\* The profiles the parent can pass after a reload: the role, id and email
\* stay, the name may have been changed.
Reloaded(p) == {p, [p EXCEPT !.fullName = <<"Z">>]}

\* The component is rendered again with another userProfile prop; useState
\* keeps the draft.
PropsChange ==
    /\ \E p \in Reloaded(userProfile) : p # userProfile /\ userProfile' = p
    /\ UNCHANGED <<isEditing, isLoading, formData, pending, outcome, saves,
                   updateCalls, refreshCalls, shown, svcVars, views>>

----------------------------------------------------------------------------
ServiceInit ==
    /\ socket = 0
    /\ channels = <<>>
    /\ notifications = <<>>
    /\ listeners = <<>>
    /\ round = <<>>
    /\ emitted = <<>>
    /\ received = 0
    /\ now = 1
    /\ alerts = 0
    /\ toasts = 0

ViewInit(p) ==
    /\ userProfile = p
    /\ isEditing = FALSE
    /\ isLoading = FALSE
    /\ formData = DraftOf(p)
    /\ pending = <<>>
    /\ outcome = "none"
    /\ saves = 0
    /\ updateCalls = 0
    /\ refreshCalls = 0
    /\ shown = <<>>

Init ==
    /\ ServiceInit
    /\ permission \in {"default", "granted"}
    /\ ViewInit(DonorSettings)
    /\ views = [v \in Views |-> Unmounted]

Connect == \E p \in Profiles : connect(p.id, p.role, p)

Disconnect == disconnect

MarkAsRead == \E id \in KnownIds : markAsRead(id)

Subscribe == \E cb \in Callbacks : subscribe(cb)

Unsubscribe == \E cb \in Callbacks : unsubscribe(cb)

Accept == \E p \in Profiles, r \in RequestCards : p.role = "donor" /\ handleAcceptBloodRequest(p, r)

Decline == \E p \in Profiles, r \in RequestCards : p.role = "donor" /\ handleDeclineBloodRequest(p, r)

Next ==
    \/ Connect
    \/ Disconnect
    \/ OnBloodRequestMatch
    \/ OnDonationAccepted
    \/ OnRequestFulfilled
    \/ MarkAsRead
    \/ Subscribe
    \/ Unsubscribe
    \/ Accept
    \/ Decline
    \/ ListenerReturn

Spec == Init /\ [][Next]_vars

\* The profile view on its own: it shares no state with the service.
InitProfile ==
    /\ ServiceInit
    /\ permission = "default"
    /\ \E p \in SettingsProfiles : ViewInit(p)
    /\ views = [v \in Views |-> Unmounted]

NextProfile ==
    \/ StartEdit
    \/ SetField
    \/ handleSave
    \/ SaveSettle
    \/ handleCancel
    \/ PropsChange

SpecProfile == InitProfile /\ [][NextProfile]_vars

\* NotificationCenter.  A closure is named by a number that no registered
\* closure has; the effect and its cleanup run when React commits, never
\* inside a notifyListeners call of the service.
Fresh(ls) ==
    "f" \o ToString(CHOOSE n \in 1..(Len(ls) + 1) :
                       \A i \in DOMAIN ls : ls[i] # "f" \o ToString(n))

\* The effect body for instance v with userProfile p, run when the
\* subscriber list is ls: connect, subscribe, setNotifications(getNotifications()).
effect(v, p, ls) ==
    /\ Idle
    /\ Len(notifications) + Len(ls) + Len(emitted) < MaxSize
    /\ IF connectGuard
       THEN UNCHANGED <<socket, channels>>
       ELSE /\ channels' = Append(channels, OpenChannel(AuthOf(p.id, p.role, p)))
            /\ socket' = Len(channels) + 1
    /\ listeners' = Append(ls, Fresh(ls))
    /\ UNCHANGED <<notifications, round, emitted, received, now, permission,
                   alerts, toasts, viewVars>>
    /\ views' = [views EXCEPT ![v] =
                    setNotifications([views[v] EXCEPT !.mounted = TRUE,
                                                      !.cb = Fresh(ls),
                                                      !.profile = p])]

\* The cleanup the effect returned: unsubscribe().
cleanup(v) == Without(listeners, views[v].cb)

Mount ==
    \E v \in Views, p \in Profiles :
       /\ ~views[v].mounted
       /\ effect(v, p, listeners)

Unmount ==
    \E v \in Views :
       /\ Idle
       /\ views[v].mounted
       /\ listeners' = cleanup(v)
       /\ views' = [views EXCEPT ![v] = Unmounted]
       /\ UNCHANGED <<socket, channels, notifications, round, emitted, received,
                      now, permission, alerts, toasts, viewVars>>

\* The parent passes another userProfile object: cleanup, then the effect.
ProfileChange ==
    \E v \in Views, p \in Profiles :
       /\ views[v].mounted
       /\ effect(v, p, cleanup(v))

NextCenter ==
    \/ Mount
    \/ Unmount
    \/ ProfileChange
    \/ OnBloodRequestMatch
    \/ OnDonationAccepted
    \/ OnRequestFulfilled
    \/ MarkAsRead
    \/ Disconnect
    \/ ListenerReturn

SpecCenter == Init /\ [][NextCenter]_vars

----------------------------------------------------------------------------
\* C1: the list holds exactly one record per inbound event handled so far
\* (none dropped, none duplicated), and a record created by a later event
\* is at a smaller index than one created by an earlier event.
C1_ListMatchesEvents ==
    /\ Len(notifications) = received
    /\ {notifications[i].seq : i \in DOMAIN notifications} = 1..received
    /\ \A i, j \in DOMAIN notifications :
          i < j => notifications[i].seq > notifications[j].seq

\* Two events handled around a markAsRead, a subscribe and a disconnect.
C1_Witness ==
    /\ received >= 2
    /\ notifications[2].read
    /\ listeners # <<>>
    /\ socket = 0

\* C2: a callback is never invoked once its unsubscribe closure has been
\* called, also within a notification round that was already under way.
C2_NoCallAfterUnsubscribe ==
    \A i \in DOMAIN round : round[i].live

\* C3: markAsRead applied twice to an identifier, present or absent, leaves
\* the list as applying it once does, whatever list has been reached.
C3_MarkIdempotent ==
    \A id \in KnownIds :
        MarkList(MarkList(notifications, id), id) = MarkList(notifications, id)

\* A list on which markAsRead has acted and can still act.
C3_Witness ==
    /\ \E i \in DOMAIN notifications : notifications[i].read
    /\ \E i \in DOMAIN notifications : ~notifications[i].read

\* C4: getUnreadCount() is the number of records of getNotifications()
\* whose read flag is false.
C4_UnreadCount ==
    getUnreadCount = Cardinality({i \in DOMAIN getNotifications : ~getNotifications[i].read})

C4_Witness ==
    /\ Len(notifications) = 3
    /\ getUnreadCount = 1

\* C5: at most one channel is open, it is the one the handle names and it
\* has one handler per inbound event; a connect while a handle is held
\* changes nothing, whatever identity it is given.
C5_ConnectIdempotent ==
    /\ [](/\ Len(channels) <= 1
          /\ socket \in {0} \cup DOMAIN channels
          /\ \A c \in DOMAIN channels :
                \A e \in DOMAIN channels[c].handlers : channels[c].handlers[e] = 1)
    /\ [][\A p \in Profiles :
            (socket # 0 /\ connect(p.id, p.role, p)) =>
                UNCHANGED <<socket, channels, notifications, listeners, round, emitted>>]_vars

\* A channel opened for the clinic is held while records and a subscriber
\* exist: the state in which a second connect is a no-op.
C5_Witness ==
    /\ socket # 0
    /\ channels[socket].auth = [userId |-> "u2", userRole |-> "clinic",
                                bloodType |-> "", location |-> "Goa"]
    /\ notifications # <<>>
    /\ listeners # <<>>

\* C6: a response is emitted only while a handle is held, one donor_response
\* event per call with the caller's requestId, response and donorInfo; with
\* no handle nothing is emitted; the list, the subscribers and the round are
\* untouched either way.  Accepting sends "accept" with id, name, phone and
\* blood type.
C6_RespondEmitsOnce ==
    [][/\ socket = 0 => emitted' = emitted
       /\ emitted' # emitted =>
            /\ Len(emitted') = Len(emitted) + 1
            /\ SubSeq(emitted', 1, Len(emitted)) = emitted
            /\ UNCHANGED <<notifications, listeners, round, socket, channels>>
            /\ \E p \in Profiles, r \in Sources :
                  handleAcceptBloodRequest(p, r) \/ handleDeclineBloodRequest(p, r)
            /\ \A p \in Profiles, r \in Sources :
                  /\ handleAcceptBloodRequest(p, r) =>
                       emitted'[Len(emitted')] =
                           [event |-> "donor_response",
                            payload |-> [requestId |-> r, response |-> "accept",
                                         donorInfo |-> [id |-> p.id, name |-> p.fullName,
                                                        phone |-> p.phoneNumber,
                                                        bloodType |-> p.bloodType]]]
                  /\ handleDeclineBloodRequest(p, r) =>
                       emitted'[Len(emitted')] =
                           [event |-> "donor_response",
                            payload |-> [requestId |-> r, response |-> "decline",
                                         donorInfo |-> [id |-> p.id, name |-> p.fullName]]]]_vars

\* The donor accepted request r1 and the channel was then closed.
C6_Witness ==
    /\ emitted = <<[event |-> "donor_response",
                    payload |-> [requestId |-> "r1", response |-> "accept",
                                 donorInfo |-> [id |-> "u1", name |-> "Jane",
                                                phone |-> "555", bloodType |-> "O-"]]]>>
    /\ socket = 0
    /\ listeners # <<>>

\* C7: any two distinct records of the list have distinct identifiers.
C7_UniqueIds ==
    \A i, j \in DOMAIN notifications :
        i # j => notifications[i].id # notifications[j].id

\* C8: a record is created unread, and a record that is read stays read
\* across every step.
C8_ReadMonotonic ==
    [][/\ \A i \in DOMAIN notifications :
            notifications[i].read =>
                \E k \in DOMAIN notifications' :
                    /\ notifications'[k].seq = notifications[i].seq
                    /\ notifications'[k].read
       /\ \A k \in DOMAIN notifications' :
            (\A i \in DOMAIN notifications : notifications[i].seq # notifications'[k].seq)
                => ~notifications'[k].read]_vars

\* A read record with a newer unread one above it and another marked since.
C8_Witness ==
    /\ Len(notifications) = 3
    /\ notifications[3].read
    /\ notifications[2].read
    /\ ~notifications[1].read

\* C9: disconnect closes the held channel and clears the handle, or changes
\* nothing when none is held; list, subscribers and round are untouched.
\* A connect with no handle opens a new channel, and every record received
\* goes in front of the list as it was.
C9_DisconnectKeepsList ==
    [][/\ disconnect =>
            /\ socket' = 0
            /\ channels' = IF socket = 0 THEN channels ELSE <<>>
            /\ UNCHANGED <<notifications, listeners, round, emitted, received>>
       /\ \A p \in Profiles :
            (socket = 0 /\ connect(p.id, p.role, p)) =>
                /\ socket' # 0
                /\ channels' = <<OpenChannel(AuthOf(p.id, p.role, p))>>
                /\ UNCHANGED <<notifications, listeners, round>>
       /\ received' # received =>
            /\ socket # 0
            /\ Tail(notifications') = notifications]_vars

\* Disconnected with two records and a subscriber kept.
C9_Witness ==
    /\ socket = 0
    /\ channels = <<>>
    /\ Len(notifications) = 2
    /\ Len(listeners) = 1
    /\ round = <<>>
    /\ toasts = 2

\* C10: every save makes one update call; when the awaited call ends, the
\* loading flag is false; if it succeeded edit mode is off and the refresh
\* callback has run once more; if it returned an error or threw, edit mode
\* is still on, the refresh callback has not run and the toast shown is the
\* failure message.
C10_SaveOutcome ==
    /\ [](updateCalls = saves /\ (isLoading <=> pending # <<>>))
    /\ [][/\ (pending = <<>> /\ pending' # <<>>) =>
               /\ updateCalls' = updateCalls + 1
               /\ isLoading'
          /\ (pending # <<>> /\ pending' = <<>>) =>
               /\ ~isLoading'
               /\ updateCalls' = updateCalls
               /\ IF outcome' = "result"
                  THEN /\ ~isEditing'
                       /\ refreshCalls' = refreshCalls + 1
                  ELSE /\ isEditing /\ isEditing'
                       /\ refreshCalls' = refreshCalls
                       /\ shown' \in {<<[kind |-> "error", text |-> "denied"]>>,
                                      <<[kind |-> "error", text |-> "offline"]>>,
                                      <<[kind |-> "error", text |-> "Failed to update profile"]>>}
                       /\ outcome' = "result:denied" => shown'[1].text = "denied"
                       /\ outcome' = "throw:offline" => shown'[1].text = "offline"]_vars

\* A save that succeeded, then one whose update call returned an error.
C10_Witness ==
    /\ saves = 2
    /\ refreshCalls = 1
    /\ outcome = "result:denied"
    /\ isEditing
    /\ ~isLoading
    /\ shown = <<[kind |-> "error", text |-> "denied"]>>

\* C11: the update payload holds fullName, phoneNumber and location without
\* leading or trailing whitespace, bloodType and isAvailable exactly for a
\* donor, organizationName (trimmed) and organizationType exactly for a
\* clinic, and never role, email or id.
IsTrimOf(r, s) ==
    /\ r = <<>> \/ (~IsSpace(r[1]) /\ ~IsSpace(r[Len(r)]))
    /\ \E i \in 1..(Len(s) + 1) :
          /\ i + Len(r) - 1 <= Len(s)
          /\ \A k \in 1..Len(r) : s[i + k - 1] = r[k]
          /\ \A k \in 1..Len(s) : (k < i \/ k >= i + Len(r)) => IsSpace(s[k])

C11_UpdatePayload ==
    /\ [](pending # <<>> =>
            DOMAIN pending[1] =
                {"fullName", "phoneNumber", "location"}
                \cup (IF userProfile.role = "donor"
                      THEN {"bloodType", "isAvailable"} ELSE {})
                \cup (IF userProfile.role = "clinic"
                      THEN {"organizationName", "organizationType"} ELSE {}))
    /\ [][(pending = <<>> /\ pending' # <<>>) =>
            LET sent == pending'[1] IN
              /\ IsTrimOf(sent.fullName, formData.fullName)
              /\ IsTrimOf(sent.phoneNumber, formData.phoneNumber)
              /\ IsTrimOf(sent.location, formData.location)
              /\ userProfile.role = "donor" =>
                    /\ sent.bloodType = formData.bloodType
                    /\ sent.isAvailable = formData.isAvailable
              /\ userProfile.role = "clinic" =>
                    /\ IsTrimOf(sent.organizationName, formData.organizationName)
                    /\ sent.organizationType = formData.organizationType]_vars

\* A donor's padded name is in flight trimmed, with availability false.
C11_Witness ==
    /\ pending # <<>>
    /\ userProfile.role = "donor"
    /\ formData.fullName = <<" ", "J", " ", "D", " ">>
    /\ pending[1].fullName = <<"J", " ", "D">>
    /\ pending[1].isAvailable = FALSE

\* C14: cancel puts every draft field back to the value of the userProfile
\* prop ("" or false where the prop has none) and leaves edit mode; no update
\* call is made and the refresh callback is not run.
C14_CancelResets ==
    [][handleCancel =>
         /\ formData' =
              [fullName |-> userProfile.fullName,
               phoneNumber |-> userProfile.phoneNumber,
               location |-> userProfile.location,
               bloodType |-> IF userProfile.bloodType = <<>> THEN ""
                             ELSE userProfile.bloodType[1],
               isAvailable |-> IF userProfile.isAvailable = <<>> THEN FALSE
                               ELSE userProfile.isAvailable[1],
               organizationName |-> IF userProfile.organizationName = <<>> THEN <<>>
                                    ELSE userProfile.organizationName[1],
               organizationType |-> IF userProfile.organizationType = <<>> THEN ""
                                    ELSE userProfile.organizationType[1]]
         /\ ~isEditing'
         /\ UNCHANGED <<saves, updateCalls, refreshCalls, pending, isLoading>>]_vars

\* A patient whose save threw has cancelled after the prop was reloaded: the
\* draft carries the reloaded name and the defaults of the absent fields.
C14_Witness ==
    /\ userProfile.role = "patient"
    /\ userProfile.fullName = <<"Z">>
    /\ outcome = "throw"
    /\ ~isEditing
    /\ formData.fullName = <<"Z">>
    /\ formData.bloodType = ""
    /\ formData.isAvailable = FALSE
    /\ updateCalls = 1
    /\ refreshCalls = 0

\* C13: an unsubscribe closure removes exactly one registration (the one
\* its subscribe call made) and leaves every other registration, also one of
\* the same callback, in place and in order.
C13_RemovesOneRegistration ==
    [][\A cb \in Callbacks :
          unsubscribe(cb) =>
             \/ cb \notin Range(listeners) /\ listeners' = listeners
             \/ \E i \in DOMAIN listeners :
                   listeners[i] = cb /\ listeners' = RemoveAt(listeners, i)]_vars

\* C13 as amended: an unsubscribe closure removes every registration of its
\* callback, leaves the registrations of every other callback in the same
\* relative order, and calling it again changes nothing.
C13_RemovesCallback ==
    [][\A cb \in Callbacks :
          unsubscribe(cb) =>
             LET keep == {i \in DOMAIN listeners : listeners[i] # cb} IN
               /\ Len(listeners') = Cardinality(keep)
               /\ \A i \in keep :
                     listeners'[Cardinality({j \in keep : j <= i})] = listeners[i]
               /\ Without(listeners', cb) = listeners']_vars

\* During a round over cb1, cb2, cb1 the closure of cb1 was called: cb2 is
\* what is left.
C13_Witness ==
    /\ round # <<>>
    /\ round[1].arr = <<"cb1", "cb2", "cb1">>
    /\ listeners = <<"cb2">>

\* C15: markAsRead(id) sets the read flag of the records whose id matches
\* and changes nothing else of the list; then each registration of the
\* subscriber list is called once, in order, with the list as it now is.
C15_MarkThenNotify ==
    [][/\ \A id \in KnownIds :
            markAsRead(id) =>
               /\ Len(notifications') = Len(notifications)
               /\ \A i \in DOMAIN notifications :
                     /\ notifications'[i].read =
                           (notifications[i].read \/ notifications[i].id = id)
                     /\ [notifications'[i] EXCEPT !.read = notifications[i].read]
                           = notifications[i]
               /\ listeners' = listeners
               /\ IF listeners = <<>>
                  THEN round' = <<>>
                  ELSE /\ Len(round') = 1
                       /\ round'[1].arr = listeners
                       /\ round'[1].idx = 1
                       /\ round'[1].arg = notifications'
       /\ (round # <<>> /\ round' # round) =>
            /\ notifications' = notifications
            /\ IF round[1].idx = Len(round[1].arr)
               THEN round' = <<>>
               ELSE /\ Len(round') = 1
                    /\ round'[1].arr = round[1].arr
                    /\ round'[1].kind = round[1].kind
                    /\ round'[1].idx = round[1].idx + 1
                    /\ round'[1].arg = notifications]_vars

\* The second of two subscribers is being called with the list whose only
\* record has just been marked.
C15_Witness ==
    /\ round # <<>>
    /\ round[1].kind = "mark"
    /\ round[1].idx = 2
    /\ Len(notifications) = 1
    /\ notifications[1].read
    /\ round[1].arg = notifications

\* C16: while the subscribers are being notified of an inbound event, the
\* visual cue of that event has already been shown.
C16_CueBeforeSubscribers ==
    (round # <<>> /\ round[1].kind = "event") => toasts = received

\* C16 as amended: the record is prepended, then the subscribers are called
\* with the list that has it at its head, and only after the last of them has
\* returned are the platform alert (if permission is granted) and the visual
\* cue triggered.
C16_SubscribersBeforeCue ==
    /\ (round # <<>> /\ round[1].kind = "event") =>
          /\ toasts = received - 1
          /\ round[1].arg = notifications
          /\ notifications[1].seq = received
          /\ ~notifications[1].read
    /\ ~(round # <<>> /\ round[1].kind = "event") => toasts = received
    /\ alerts = IF permission = "granted" THEN toasts ELSE 0

\* A subscriber is being told of the second event; the first one's alert and
\* cue are the only ones so far.
C16_Witness ==
    /\ round # <<>>
    /\ round[1].kind = "event"
    /\ permission = "granted"
    /\ received = 2
    /\ alerts = 1
    /\ toasts = 1

\* C12: whatever instances have been mounted, unmounted or given another
\* userProfile, the subscriber list holds exactly one callback for each
\* mounted instance and nothing else, and a callback that notifyListeners
\* calls belongs to a mounted instance.
C12_OneCallbackPerView ==
    LET on == {v \in Views : views[v].mounted} IN
      /\ \A v \in on :
            Cardinality({i \in DOMAIN listeners : listeners[i] = views[v].cb}) = 1
      /\ \A v \in on, w \in on : v # w => views[v].cb # views[w].cb
      /\ Len(listeners) = Cardinality(on)
      /\ round # <<>> =>
            /\ round[1].live
            /\ \A i \in DOMAIN round[1].arr :
                  \E v \in on : views[v].cb = round[1].arr[i]

\* Both instances are mounted, the first one was given another profile after
\* the second had subscribed, and an event is being delivered.
C12_Witness ==
    /\ views["v1"].mounted /\ views["v2"].mounted
    /\ views["v1"].profile = ClinicProfile
    /\ listeners = <<views["v2"].cb, views["v1"].cb>>
    /\ round # <<>>
    /\ round[1].kind = "event"
    /\ round[1].idx = 2

\* C17: the array a view holds as its state has the contents it had when
\* the view was given it, so the service's current array is never one a view
\* already holds with other contents.
C17_SnapshotsStable ==
    \A v \in Views :
       (views[v].mounted /\ views[v].same) => views[v].seen = notifications

====
